---- MODULE Spec2Model ----
(***************************************************************************)
(* Model of the Rooby bytecode VM core (src/vm/vm.go): the operand stack   *)
(* (Stack.push / Stack.pop / Stack.Top over VM.SP), the label registry     *)
(* (setLabel, getMethodIS, getClassIS, getBlock), the evaluator loop       *)
(* (EvalCallFrame, execInstruction) and VM construction.                   *)
(*                                                                         *)
(* Go slices are 0-indexed, TLA+ sequences 1-indexed: s.Data[i] in the     *)
(* source is Data[i + 1] here.  A Go panic that nothing recovers ends the  *)
(* process: the variable fault records it and every operation is guarded   *)
(* by fault = NoFault.                                                     *)
(***************************************************************************)
EXTENDS Integers, Sequences, FiniteSets, TLC

(* ------------------------------ bounds --------------------------------- *)
\* number of distinct non-nil Pointers the stack operations are fed
NumPointers == 2
\* pushes made on one VM (bounds len(Stack.Data) and the ghost counters)
MaxPushes == 4
\* argument counts a send is tried with: 0..MaxArgc
MaxArgc == 2
\* instruction sets handed to setLabel on one VM
MaxIS == 3
\* fetches (getMethodIS, getClassIS, getBlock) that return an instruction set
MaxFetch == 3
\* instructions in the instruction set of an evaluated call frame
MaxProg == 3

(* ------------------------------ values --------------------------------- *)
\* the nil *Pointer / nil *InstructionSet
nil == 0
Pointers == 1..NumPointers

NoFault == "none"
\* panic("Nothing to pop!") of Stack.pop
NothingToPop == "Nothing to pop!"
\* Go's runtime panic for a slice index outside 0..len-1
IndexOutOfRange == "runtime error: index out of range"

VARIABLES
    Data,            \* Stack.Data
    SP,              \* VM.SP
    CFP,             \* VM.CFP
    CallFrames,      \* CallFrameStack.CallFrames
    Constants,       \* VM.Constants
    LabelTable,      \* VM.LabelTable
    MethodISTable,   \* VM.MethodISTable.Data
    ClassISTable,    \* VM.ClassISTable.Data
    BlockList,       \* VM.BlockList.Data
    Label,           \* InstructionSet.Label, per allocated instruction set
    cf,              \* the CallFrame given to EvalCallFrame: PC, Instructions
    evalState,       \* where EvalCallFrame is: "idle", "running", "returned"
    entryPC,         \* history: cf.PC when EvalCallFrame was entered
    executed,        \* history: the instructions executed, in order
    fault,           \* the panic that ended the run, or NoFault
    lastOp,          \* history: the last operation, its argument and result
    pushes,          \* history: number of completed Stack.push calls
    pops,            \* history: number of Stack.pop calls that returned
    live,            \* history: pushed pointers not yet returned by a pop
    maxSP,           \* history: the largest value SP has taken
    regLog,          \* history: the setLabel calls, in call order
    fetchLog         \* history: the successful getMethodIS/getClassIS calls

stackVars == <<Data, SP>>
frameVars == <<CFP, CallFrames, cf, evalState, entryPC, executed>>
labelVars == <<LabelTable, MethodISTable, ClassISTable, BlockList, Label>>
stackHist == <<pushes, pops, live, maxSP>>
labelHist == <<regLog, fetchLog>>
vars == <<Data, SP, CFP, CallFrames, cf, evalState, entryPC, executed,
          Constants, LabelTable, MethodISTable,
          ClassISTable, BlockList, Label, fault, lastOp, pushes, pops, live,
          maxSP, regLog, fetchLog>>

Op(op, name, arg, ret, ok) ==
    [op |-> op, name |-> name, arg |-> arg, ret |-> ret, ok |-> ok]

(* --------------------------- construction ------------------------------ *)
\* the slice literal of initConstants, in source order
builtInClasses ==
    <<"IntegerClass", "StringClass", "BooleanClass", "NullClass",
      "ArrayClass", "HashClass", "ClassClass", "ObjectClass">>

\* Class.ReturnName(): the class's name attribute
ReturnName(c) ==
    CASE c = "IntegerClass" -> "Integer"
      [] c = "StringClass"  -> "String"
      [] c = "BooleanClass" -> "Boolean"
      [] c = "NullClass"    -> "Null"
      [] c = "ArrayClass"   -> "Array"
      [] c = "HashClass"    -> "Hash"
      [] c = "ClassClass"   -> "Class"
      [] c = "ObjectClass"  -> "Object"

\* constants[c.ReturnName()] = &Pointer{Target: c} on a Go map
MapSet(m, k, v) == [x \in DOMAIN m \cup {k} |-> IF x = k THEN v ELSE m[x]]

EmptyMap == [x \in {} |-> nil]

RECURSIVE initConstantsLoop(_, _)
initConstantsLoop(constants, i) ==
    IF i > Len(builtInClasses) THEN constants
    ELSE initConstantsLoop(
             MapSet(constants, ReturnName(builtInClasses[i]),
                    [Target |-> builtInClasses[i]]),
             i + 1)

\* the loop started one element late, leaving the first class unbound
initConstants_skipsFirst == initConstantsLoop(EmptyMap, 2)

initConstants == initConstantsLoop(EmptyMap, 1)

LabelTypes == {"LABEL_DEF", "LABEL_DEFCLASS", "BLOCK", "PROGRAM"}

\* the VM that New() returns
New ==
    [Data          |-> <<>>,
     SP            |-> 0,
     CFP           |-> 0,
     CallFrames    |-> <<>>,
     Constants     |-> initConstants,
     MethodISTable |-> EmptyMap,
     ClassISTable  |-> EmptyMap,
     BlockList     |-> EmptyMap,
     LabelTable    |-> [t \in LabelTypes |-> EmptyMap]]

\* no call frame has been evaluated yet
NoFrame == [PC |-> 0, Instructions |-> <<>>]

\* the history variables of a VM nothing has been done to
FreshHist ==
    [lastOp |-> Op("New", <<>>, 0, 0, TRUE), pushes |-> 0, pops |-> 0,
     live |-> <<>>, maxSP |-> 0, regLog |-> <<>>, fetchLog |-> <<>>]

Init ==
    /\ Data = New.Data
    /\ SP = New.SP
    /\ CFP = New.CFP
    /\ CallFrames = New.CallFrames
    /\ cf = NoFrame
    /\ evalState = "idle"
    /\ entryPC = 0
    /\ executed = <<>>
    /\ Constants = New.Constants
    /\ LabelTable = New.LabelTable
    /\ MethodISTable = New.MethodISTable
    /\ ClassISTable = New.ClassISTable
    /\ BlockList = New.BlockList
    /\ Label = EmptyMap
    /\ fault = NoFault
    /\ lastOp = FreshHist.lastOp
    /\ pushes = FreshHist.pushes
    /\ pops = FreshHist.pops
    /\ live = FreshHist.live
    /\ maxSP = FreshHist.maxSP
    /\ regLog = FreshHist.regLog
    /\ fetchLog = FreshHist.fetchLog

(* --------------------------- operand stack ----------------------------- *)
\* push that appends on every call, without the overwrite-in-place path
push_alwaysAppend(s, v) ==
    [Data |-> Append(s.Data, v), SP |-> s.SP + 1, fault |-> NoFault]

\* push declared on a value receiver: the append is made to a copy of the
\* Stack and lost, the write through the backing array and SP are kept
push_valueReceiver(s, v) ==
    IF Len(s.Data) <= s.SP
    THEN [Data |-> s.Data, SP |-> s.SP + 1, fault |-> NoFault]
    ELSE IF s.SP < 0
         THEN [Data |-> s.Data, SP |-> s.SP, fault |-> IndexOutOfRange]
         ELSE [Data |-> [s.Data EXCEPT ![s.SP + 1] = v], SP |-> s.SP + 1,
               fault |-> NoFault]

\* Stack.push on the stack s = [Data, SP]
push(s, v) ==
    IF Len(s.Data) <= s.SP
    THEN [Data |-> Append(s.Data, v), SP |-> s.SP + 1, fault |-> NoFault]
    ELSE IF s.SP < 0
         THEN [Data |-> s.Data, SP |-> s.SP, fault |-> IndexOutOfRange]
         ELSE [Data |-> [s.Data EXCEPT ![s.SP + 1] = v], SP |-> s.SP + 1,
               fault |-> NoFault]

\* pop that clears the slot below the one it returns
pop_clearsBelow(s) ==
    IF Len(s.Data) < 1
    THEN [Data |-> s.Data, SP |-> s.SP, ret |-> nil, fault |-> NothingToPop]
    ELSE LET sp == s.SP - 1
         IN  IF sp < 1 \/ sp >= Len(s.Data)
             THEN [Data |-> s.Data, SP |-> sp, ret |-> nil,
                   fault |-> IndexOutOfRange]
             ELSE [Data |-> [s.Data EXCEPT ![sp] = nil], SP |-> sp,
                   ret |-> s.Data[sp + 1], fault |-> NoFault]

\* pop that reads and clears the top slot but leaves SP where it was
pop_keepsSP(s) ==
    IF Len(s.Data) < 1
    THEN [Data |-> s.Data, SP |-> s.SP, ret |-> nil, fault |-> NothingToPop]
    ELSE LET sp == s.SP - 1
         IN  IF sp < 0 \/ sp >= Len(s.Data)
             THEN [Data |-> s.Data, SP |-> s.SP, ret |-> nil,
                   fault |-> IndexOutOfRange]
             ELSE [Data |-> [s.Data EXCEPT ![sp + 1] = nil], SP |-> s.SP,
                   ret |-> s.Data[sp + 1], fault |-> NoFault]

\* pop that returns the top slot without setting it to nil
pop_noClear(s) ==
    IF Len(s.Data) < 1
    THEN [Data |-> s.Data, SP |-> s.SP, ret |-> nil, fault |-> NothingToPop]
    ELSE LET sp == s.SP - 1
         IN  IF sp < 0 \/ sp >= Len(s.Data)
             THEN [Data |-> s.Data, SP |-> sp, ret |-> nil,
                   fault |-> IndexOutOfRange]
             ELSE [Data |-> s.Data, SP |-> sp, ret |-> s.Data[sp + 1],
                   fault |-> NoFault]

\* Stack.pop on the stack s = [Data, SP]; the decrement of SP precedes the
\* slice access, so it stays when the access panics
pop(s) ==
    IF Len(s.Data) < 1
    THEN [Data |-> s.Data, SP |-> s.SP, ret |-> nil, fault |-> NothingToPop]
    ELSE LET sp == s.SP - 1
         IN  IF sp < 0 \/ sp >= Len(s.Data)
             THEN [Data |-> s.Data, SP |-> sp, ret |-> nil,
                   fault |-> IndexOutOfRange]
             ELSE [Data |-> [s.Data EXCEPT ![sp + 1] = nil], SP |-> sp,
                   ret |-> s.Data[sp + 1], fault |-> NoFault]

\* Top that reads the slot at SP, the next free one
Top_readsFreeSlot(s) ==
    LET i == IF s.SP > 0 THEN s.SP ELSE 0
    IN  IF i >= Len(s.Data)
        THEN [ret |-> nil, fault |-> IndexOutOfRange]
        ELSE [ret |-> s.Data[i + 1], fault |-> NoFault]

\* Stack.Top on the stack s = [Data, SP]
Top(s) ==
    LET i == IF s.SP > 0 THEN s.SP - 1 ELSE 0
    IN  IF i >= Len(s.Data)
        THEN [ret |-> nil, fault |-> IndexOutOfRange]
        ELSE [ret |-> s.Data[i + 1], fault |-> NoFault]

TheStack == [Data |-> Data, SP |-> SP]

\* n successive Stack.pop calls, stopping at the first that panics; count is
\* the number of calls that returned
RECURSIVE popN(_, _)
popN(s, n) ==
    IF n = 0
    THEN [Data |-> s.Data, SP |-> s.SP, fault |-> NoFault, count |-> 0]
    ELSE LET r == pop(s)
         IN  IF r.fault # NoFault
             THEN [Data |-> r.Data, SP |-> r.SP, fault |-> r.fault,
                   count |-> 0]
             ELSE LET t == popN([Data |-> r.Data, SP |-> r.SP], n - 1)
                  IN  [t EXCEPT !.count = t.count + 1]

\* send with argc arguments, up to and including its matching leave: the
\* argc arguments and then the receiver are popped, the callee runs, and
\* its result rv is what it leaves on the stack for the caller
send(s, argc, rv) ==
    LET a == popN(s, argc + 1)
    IN  IF a.fault # NoFault
        THEN a
        ELSE LET r == push([Data |-> a.Data, SP |-> a.SP], rv)
             IN  [Data |-> r.Data, SP |-> r.SP, fault |-> r.fault,
                  count |-> a.count]

DropLast(q) == SubSeq(q, 1, Len(q) - 1)

Max(a, b) == IF a >= b THEN a ELSE b

Push(v) ==
    /\ fault = NoFault
    /\ pushes < MaxPushes
    /\ LET r == push(TheStack, v)
       IN  /\ Data' = r.Data
           /\ SP' = r.SP
           /\ fault' = r.fault
           /\ lastOp' = Op("push", <<>>, v, nil, r.fault = NoFault)
           /\ pushes' = IF r.fault = NoFault THEN pushes + 1 ELSE pushes
           /\ live' = IF r.fault = NoFault THEN Append(live, v) ELSE live
           /\ maxSP' = Max(maxSP, r.SP)
    /\ UNCHANGED <<pops, frameVars, Constants, labelVars, labelHist>>

Pop ==
    /\ fault = NoFault
    /\ LET r == pop(TheStack)
       IN  /\ Data' = r.Data
           /\ SP' = r.SP
           /\ fault' = r.fault
           /\ lastOp' = Op("pop", <<>>, 0, r.ret, r.fault = NoFault)
           /\ pops' = IF r.fault = NoFault THEN pops + 1 ELSE pops
           /\ live' = IF r.fault = NoFault /\ live # <<>>
                      THEN DropLast(live) ELSE live
           /\ maxSP' = Max(maxSP, r.SP)
    /\ UNCHANGED <<pushes, frameVars, Constants, labelVars, labelHist>>

StackTop ==
    /\ fault = NoFault
    /\ LET r == Top(TheStack)
       IN  /\ fault' = r.fault
           /\ lastOp' = Op("Top", <<>>, 0, r.ret, r.fault = NoFault)
    /\ UNCHANGED <<stackVars, stackHist, frameVars, Constants, labelVars,
                   labelHist>>

Send(argc, rv) ==
    /\ fault = NoFault
    /\ pushes < MaxPushes
    /\ LET r == send(TheStack, argc, rv)
           ok == r.fault = NoFault
           kept == SubSeq(live, 1, Len(live) - r.count)
       IN  /\ Data' = r.Data
           /\ SP' = r.SP
           /\ fault' = r.fault
           /\ lastOp' = Op("send", <<>>, argc, IF ok THEN rv ELSE nil, ok)
           /\ pops' = pops + r.count
           /\ pushes' = IF ok THEN pushes + 1 ELSE pushes
           /\ live' = IF ok THEN Append(kept, rv) ELSE kept
           /\ maxSP' = Max(maxSP, r.SP)
    /\ UNCHANGED <<frameVars, Constants, labelVars, labelHist>>

\* a test or embedder builds a fresh VM
NewVM ==
    /\ fault = NoFault
    /\ lastOp.op # "New"
    /\ Data' = New.Data
    /\ SP' = New.SP
    /\ CFP' = New.CFP
    /\ CallFrames' = New.CallFrames
    /\ cf' = NoFrame
    /\ evalState' = "idle"
    /\ entryPC' = 0
    /\ executed' = <<>>
    /\ Constants' = New.Constants
    /\ LabelTable' = New.LabelTable
    /\ MethodISTable' = New.MethodISTable
    /\ ClassISTable' = New.ClassISTable
    /\ BlockList' = New.BlockList
    /\ Label' = EmptyMap
    /\ fault' = NoFault
    /\ lastOp' = FreshHist.lastOp
    /\ pushes' = FreshHist.pushes
    /\ pops' = FreshHist.pops
    /\ live' = FreshHist.live
    /\ maxSP' = FreshHist.maxSP
    /\ regLog' = FreshHist.regLog
    /\ fetchLog' = FreshHist.fetchLog

NextStack ==
    \/ \E v \in Pointers : Push(v)
    \/ Pop
    \/ StackTop
    \/ NewVM

Spec == Init /\ [][NextStack]_vars

\* the stack operations together with the send instruction
NextSend ==
    \/ \E v \in Pointers : Push(v)
    \/ Pop
    \/ \E argc \in 0..MaxArgc, rv \in Pointers : Send(argc, rv)

SpecSend == Init /\ [][NextSend]_vars

(* ------------------------------ evaluator ------------------------------ *)
\* the Pointers push_true and push_false push; branch_if_false takes the
\* branch on the second
TruePointer == 1
FalsePointer == 2

\* the instructions frames are built from: two that leave PC alone and the
\* two that assign it
Instrs ==
    {[op |-> o, arg |-> 0] : o \in {"push_true", "push_false"}}
    \cup {[op |-> o, arg |-> k] : o \in {"jump", "branch_if_false"},
                                  k \in 0..MaxProg}

InstructionSets == UNION {[1..n -> Instrs] : n \in 0..MaxProg}

WritesPC(i) == i.op \in {"jump", "branch_if_false"}

\* i.Action.Operation(vm, cf, i.Params...) on the frame c and the stack s;
\* seen is the PC the operation finds in the frame, took whether it
\* assigned PC
Operation(c, s, i) ==
    CASE i.op = "push_true" ->
            LET r == push(s, TruePointer)
            IN  [PC |-> c.PC, Data |-> r.Data, SP |-> r.SP, fault |-> r.fault,
                 seen |-> c.PC, took |-> FALSE, ret |-> nil]
      [] i.op = "push_false" ->
            LET r == push(s, FalsePointer)
            IN  [PC |-> c.PC, Data |-> r.Data, SP |-> r.SP, fault |-> r.fault,
                 seen |-> c.PC, took |-> FALSE, ret |-> nil]
      [] i.op = "jump" ->
            [PC |-> i.arg, Data |-> s.Data, SP |-> s.SP, fault |-> NoFault,
             seen |-> c.PC, took |-> TRUE, ret |-> nil]
      [] i.op = "branch_if_false" ->
            LET r == pop(s)
                take == r.fault = NoFault /\ r.ret = FalsePointer
            IN  [PC |-> IF take THEN i.arg ELSE c.PC, Data |-> r.Data,
                 SP |-> r.SP, fault |-> r.fault, seen |-> c.PC,
                 took |-> take, ret |-> r.ret]

\* execInstruction with the increment of PC placed after the operation
execInstruction_incrementsAfter(c, s, i) ==
    LET r == Operation(c, s, i)
    IN  [r EXCEPT !.PC = @ + 1]

\* VM.execInstruction: cf.PC += 1, then the instruction's operation
execInstruction(c, s, i) ==
    Operation([c EXCEPT !.PC = @ + 1], s, i)

\* the loop condition of EvalCallFrame with <= written for <
EvalCallFrameLoops_offByOne(c) == c.PC <= Len(c.Instructions)

\* the loop condition of VM.EvalCallFrame
EvalCallFrameLoops(c) == c.PC < Len(c.Instructions)

\* a frame over the instruction set is is created with PC = p <= len and
\* EvalCallFrame is called on it
Enter(is, p) ==
    /\ fault = NoFault
    /\ evalState = "idle"
    /\ cf' = [PC |-> p, Instructions |-> is]
    /\ evalState' = "running"
    /\ entryPC' = p
    /\ lastOp' = Op("EvalCallFrame", <<>>, p, nil, TRUE)
    /\ UNCHANGED <<stackVars, stackHist, CFP, CallFrames, executed, Constants,
                   labelVars, labelHist, fault>>

\* one iteration of the loop of EvalCallFrame
EvalStep ==
    /\ fault = NoFault
    /\ evalState = "running"
    /\ EvalCallFrameLoops(cf)
    /\ Len(executed) < MaxProg + 1
    /\ IF cf.PC < 0 \/ cf.PC >= Len(cf.Instructions)
       THEN /\ fault' = IndexOutOfRange
            /\ lastOp' = Op("exec", <<>>, cf.PC, nil, FALSE)
            /\ UNCHANGED <<stackVars, stackHist, cf, executed>>
       ELSE LET i == cf.Instructions[cf.PC + 1]
                r == execInstruction(cf, TheStack, i)
                ok == r.fault = NoFault
                pushed == ok /\ i.op \in {"push_true", "push_false"}
                popped == ok /\ i.op = "branch_if_false"
            IN  /\ cf' = [cf EXCEPT !.PC = r.PC]
                /\ Data' = r.Data
                /\ SP' = r.SP
                /\ fault' = r.fault
                /\ lastOp' = Op("exec", <<>>, cf.PC, r.ret, ok)
                /\ executed' = Append(executed,
                                      [idx |-> cf.PC, instr |-> i,
                                       seen |-> r.seen, took |-> r.took])
                /\ pushes' = IF pushed THEN pushes + 1 ELSE pushes
                /\ pops' = IF popped THEN pops + 1 ELSE pops
                /\ live' = IF pushed THEN Append(live, Data'[SP'])
                           ELSE IF popped /\ live # <<>> THEN DropLast(live)
                           ELSE live
                /\ maxSP' = Max(maxSP, r.SP)
    /\ UNCHANGED <<CFP, CallFrames, evalState, entryPC, Constants, labelVars,
                   labelHist>>

\* EvalCallFrame leaves its loop and returns
EvalReturn ==
    /\ fault = NoFault
    /\ evalState = "running"
    /\ ~EvalCallFrameLoops(cf)
    /\ evalState' = "returned"
    /\ lastOp' = Op("return", <<>>, cf.PC, nil, TRUE)
    /\ UNCHANGED <<stackVars, stackHist, CFP, CallFrames, cf, entryPC,
                   executed, Constants, labelVars, labelHist, fault>>

NextEval ==
    \/ /\ evalState = "idle"
       /\ \E is \in InstructionSets : \E p \in 0..Len(is) : Enter(is, p)
    \/ EvalStep
    \/ EvalReturn

SpecEval == Init /\ [][NextEval]_vars

\* EvalCallFrame is a sequential loop: once called it keeps running
SpecEvalFair ==
    Init /\ [][NextEval]_vars /\ WF_vars(EvalStep) /\ WF_vars(EvalReturn)

(* -------------------------- evaluator: claims -------------------------- *)
\* C15: every executed instruction is the one at the PC the loop found, its
\* operation sees PC already advanced by one, an operation that assigns
\* PC := offset leaves PC = offset, any other leaves PC one past the
\* instruction, and after an assignment PC := offset the next instruction
\* fetched is the one at index offset.
C15_PCAdvancesBeforeOperation ==
    [][(lastOp'.op = "exec" /\ lastOp'.ok) =>
          LET e == executed'[Len(executed')]
          IN  /\ Len(executed') = Len(executed) + 1
              /\ e.idx = cf.PC
              /\ e.instr = cf.Instructions[cf.PC + 1]
              /\ e.seen = cf.PC + 1
              /\ e.instr.op = "jump" => cf'.PC = e.instr.arg
              /\ (e.instr.op = "branch_if_false"
                     /\ lastOp'.ret = FalsePointer) => cf'.PC = e.instr.arg
              /\ (e.instr.op = "branch_if_false"
                     /\ lastOp'.ret # FalsePointer) => cf'.PC = cf.PC + 1
              /\ ~WritesPC(e.instr) => cf'.PC = cf.PC + 1
              /\ executed # <<>> =>
                     LET d == executed[Len(executed)]
                     IN  /\ d.instr.op = "jump" => e.idx = d.instr.arg
                         /\ (d.instr.op = "branch_if_false" /\ d.took)
                                => e.idx = d.instr.arg]_vars

C15_Witness ==
    /\ lastOp.op = "exec"
    /\ lastOp.ok
    /\ Len(executed) >= 3
    /\ executed[1].instr.op = "push_false"
    /\ executed[2].instr.op = "branch_if_false"
    /\ executed[2].took
    /\ executed[2].instr.arg # executed[2].idx + 1
    /\ executed[3].idx = executed[2].instr.arg
    /\ executed[3].instr.op = "jump"
    /\ cf.PC = executed[3].instr.arg

JumpFree(is) == \A k \in 1..Len(is) : ~WritesPC(is[k])

\* C16: EvalCallFrame on a frame whose operations do not write PC executes
\* the instructions at entryPC, entryPC + 1, ..., len - 1 once each in that
\* order, fetches no index >= len, faults nowhere, and returns, with
\* PC = len; entered with PC = len it executes nothing.
C16_SequentialEvalTerminates ==
    /\ []((evalState # "idle" /\ JumpFree(cf.Instructions)) =>
            /\ fault = NoFault
            /\ \A j \in 1..Len(executed) :
                   /\ executed[j].idx = entryPC + j - 1
                   /\ executed[j].idx < Len(cf.Instructions)
            /\ cf.PC = entryPC + Len(executed)
            /\ evalState = "returned" =>
                   /\ cf.PC = Len(cf.Instructions)
                   /\ Len(executed) = Len(cf.Instructions) - entryPC)
    /\ ((evalState = "running" /\ JumpFree(cf.Instructions))
           ~> evalState = "returned")

C16_Witness ==
    /\ evalState = "returned"
    /\ JumpFree(cf.Instructions)
    /\ Len(cf.Instructions) >= 3
    /\ entryPC = 1
    /\ Len(executed) = 2

(* ------------------------ operand stack: claims ------------------------ *)
\* C1: SP is never negative, in every state reachable by push and pop,
\* the state in which a pop call faults included.
C1_SPNeverNegative == SP >= 0

\* C2: whenever pop is called with SP = 0, it halts with the explicit
\* "Nothing to pop!" fault and leaves SP and every stack slot unchanged.
C2_PopOnEmptyIsNothingToPop ==
    [][(SP = 0 /\ lastOp'.op = "pop")
          => (fault' = NothingToPop /\ SP' = SP /\ Data' = Data)]_vars

\* the slots below SP are the pushed pointers not yet popped, oldest first
LiveSlotsMatch ==
    /\ SP = Len(live)
    /\ SP <= Len(Data)
    /\ \A i \in 1..Len(Data) : i <= SP => Data[i] = live[i]

\* C3: the operand stack is LIFO with SP the next free slot: while no
\* operation has faulted, SP = pushes - pops, the slots below SP hold the
\* pushed pointers not yet popped in push order, and every pop returns the
\* most recently pushed pointer not yet popped.
C3_StackIsLIFO ==
    [][fault' = NoFault =>
          /\ SP' = pushes' - pops'
          /\ LiveSlotsMatch'
          /\ lastOp'.op = "pop" =>
                 /\ live # <<>>
                 /\ lastOp'.ret = live[Len(live)]
                 /\ SP' = SP - 1]_vars

C3_Witness ==
    /\ lastOp.op = "pop"
    /\ lastOp.ok
    /\ lastOp.ret # nil
    /\ pops >= 2
    /\ SP >= 1
    /\ Len(Data) > SP + 1

\* C4: SP never exceeds the length of the stack's backing data.
C4_SPWithinData == SP <= Len(Data)

C4_Witness ==
    /\ SP = Len(Data)
    /\ SP >= 2
    /\ pops >= 1
    /\ lastOp.op = "push"

\* C5: every live slot (index below SP) holds a non-nil Pointer.
C5_LiveSlotsNonNil == \A i \in 1..Len(Data) : i <= SP => Data[i] # nil

C5_Witness ==
    /\ lastOp.op = "push"
    /\ pops >= 1
    /\ SP >= 2
    /\ SP < Len(Data)
    /\ Data[SP + 1] = nil

\* C17: Top changes neither SP nor any slot; with SP > 0 it returns the
\* most recently pushed pointer not yet popped (the slot at SP - 1), and a
\* pop that follows it returns that same pointer.
C17_TopIsPureRead ==
    [][/\ lastOp'.op = "Top" =>
              /\ UNCHANGED <<Data, SP>>
              /\ SP > 0 =>
                     /\ lastOp'.ok
                     /\ live # <<>>
                     /\ lastOp'.ret = live[Len(live)]
       /\ (lastOp.op = "Top" /\ lastOp.ok /\ SP > 0 /\ lastOp'.op = "pop")
             => (lastOp'.ok /\ lastOp'.ret = lastOp.ret)]_vars

C17_Witness ==
    /\ lastOp.op = "Top"
    /\ lastOp.ok
    /\ lastOp.ret # nil
    /\ SP >= 2
    /\ pops >= 1
    /\ SP < Len(Data)

\* C19: while no operation has faulted, every slot at an index >= SP is
\* nil and len(Data) is the largest value SP has taken.
C19_PoppedSlotsCleared ==
    fault = NoFault =>
        /\ \A i \in 1..Len(Data) : i > SP => Data[i] = nil
        /\ Len(Data) = maxSP

C19_Witness ==
    /\ lastOp.op = "pop"
    /\ lastOp.ok
    /\ SP >= 1
    /\ Len(Data) >= SP + 2
    /\ pushes >= 3

\* C20: whenever Top returns, the Pointer it returns is not nil, also at
\* SP = 0 after the stack was pushed to and fully popped.
C20_TopNeverNil == (lastOp.op = "Top" /\ lastOp.ok) => lastOp.ret # nil

(* --------------------------- label registry --------------------------- *)
\* strings are sequences of characters, so that strings.Split has something
\* to split
ProgramStart == <<"P", "r", "o", "g", "r", "a", "m", "S", "t", "a", "r", "t">>
DefPrefix == <<"D", "e", "f">>
DefClassPrefix == <<"D", "e", "f", "C", "l", "a", "s", "s">>
BlockPrefix == <<"B", "l", "o", "c", "k">>

\* method, class and block names the compiler emits labels for
Names == {<<"f">>, <<"g">>}

\* the label strings of the bytecode: ProgramStart, Def:<name>,
\* DefClass:<name>, Block:<id>, and one malformed label without a colon
MkLabel(prefix, n) == prefix \o <<":">> \o n
LabelStrings ==
    {ProgramStart} \cup {<<"f">>}
    \cup {MkLabel(p, n) : p \in {DefPrefix, DefClassPrefix, BlockPrefix},
                          n \in Names}

\* strings.Split(s, sep) for a one-character separator
RECURSIVE Split(_, _)
Split(s, sep) ==
    IF \E i \in 1..Len(s) : s[i] = sep
    THEN LET i == CHOOSE k \in 1..Len(s) :
                      s[k] = sep /\ \A j \in 1..(k - 1) : s[j] # sep
         IN  <<SubSeq(s, 1, i - 1)>> \o Split(SubSeq(s, i + 1, Len(s)), sep)
    ELSE <<s>>

\* the labelTypes map from a label's prefix to its LabelType
labelTypes ==
    [p \in {DefPrefix, DefClassPrefix, BlockPrefix} |->
        CASE p = DefPrefix      -> "LABEL_DEF"
          [] p = DefClassPrefix -> "LABEL_DEFCLASS"
          [] p = BlockPrefix    -> "BLOCK"]

\* a read of a Go map: the zero value when the key is absent
MapGetInt(m, k) == IF k \in DOMAIN m THEN m[k] ELSE 0
MapGetList(m, k) == IF k \in DOMAIN m THEN m[k] ELSE <<>>

\* setLabel that stores a one-element list instead of appending
setLabel_replaces(T, is, name) ==
    IF name = ProgramStart
    THEN [LabelTable |-> [T EXCEPT !["PROGRAM"] = MapSet(@, name, <<is>>)],
          l |-> [Name |-> name, Type |-> "PROGRAM"],
          fault |-> NoFault]
    ELSE LET parts == Split(name, ":")
         IN  IF Len(parts) < 2
             THEN [LabelTable |-> T, l |-> nil, fault |-> IndexOutOfRange]
             ELSE LET labelName == parts[2]
                      labelType == labelTypes[parts[1]]
                  IN  [LabelTable |->
                           [T EXCEPT ![labelType] =
                               MapSet(@, labelName, <<is>>)],
                       l |-> [Name |-> name, Type |-> labelType],
                       fault |-> NoFault]

\* setLabel that takes element 0 of the split, the prefix, as the name
setLabel_nameIsPrefix(T, is, name) ==
    IF name = ProgramStart
    THEN [LabelTable |->
              [T EXCEPT !["PROGRAM"] =
                  MapSet(@, name, Append(MapGetList(@, name), is))],
          l |-> [Name |-> name, Type |-> "PROGRAM"],
          fault |-> NoFault]
    ELSE LET parts == Split(name, ":")
         IN  IF Len(parts) < 2
             THEN [LabelTable |-> T, l |-> nil, fault |-> IndexOutOfRange]
             ELSE LET labelName == parts[1]
                      labelType == labelTypes[parts[1]]
                  IN  [LabelTable |->
                           [T EXCEPT ![labelType] =
                               MapSet(@, labelName,
                                      Append(MapGetList(@, labelName), is))],
                       l |-> [Name |-> name, Type |-> labelType],
                       fault |-> NoFault]

\* VM.setLabel on the label table T; l is the Label stored in is.Label
setLabel(T, is, name) ==
    IF name = ProgramStart
    THEN [LabelTable |->
              [T EXCEPT !["PROGRAM"] =
                  MapSet(@, name, Append(MapGetList(@, name), is))],
          l |-> [Name |-> name, Type |-> "PROGRAM"],
          fault |-> NoFault]
    ELSE LET parts == Split(name, ":")
         IN  IF Len(parts) < 2
             THEN [LabelTable |-> T, l |-> nil, fault |-> IndexOutOfRange]
             ELSE LET labelName == parts[2]
                      labelType == labelTypes[parts[1]]
                  IN  [LabelTable |->
                           [T EXCEPT ![labelType] =
                               MapSet(@, labelName,
                                      Append(MapGetList(@, labelName), is))],
                       l |-> [Name |-> name, Type |-> labelType],
                       fault |-> NoFault]

\* getMethodIS that returns the instruction set at the cursor without
\* advancing the cursor
getMethodIS_noAdvance(T, cur, name) ==
    IF name \notin DOMAIN T["LABEL_DEF"]
    THEN [is |-> nil, ok |-> FALSE, cur |-> cur, fault |-> NoFault]
    ELSE LET iss == T["LABEL_DEF"][name]
             i == MapGetInt(cur, name)
         IN  IF i < 0 \/ i >= Len(iss)
             THEN [is |-> nil, ok |-> FALSE, cur |-> cur,
                   fault |-> IndexOutOfRange]
             ELSE [is |-> iss[i + 1], ok |-> TRUE, cur |-> cur,
                   fault |-> NoFault]

\* getMethodIS that advances the cursor before it indexes the list, so the
\* cursor moves even when the index is out of range
getMethodIS_bumpsFirst(T, cur, name) ==
    IF name \notin DOMAIN T["LABEL_DEF"]
    THEN [is |-> nil, ok |-> FALSE, cur |-> cur, fault |-> NoFault]
    ELSE LET iss == T["LABEL_DEF"][name]
             i == MapGetInt(cur, name)
         IN  IF i < 0 \/ i >= Len(iss)
             THEN [is |-> nil, ok |-> FALSE, cur |-> MapSet(cur, name, i + 1),
                   fault |-> IndexOutOfRange]
             ELSE [is |-> iss[i + 1], ok |-> TRUE,
                   cur |-> MapSet(cur, name, i + 1), fault |-> NoFault]

\* VM.getMethodIS on the label table T and the cursors cur
getMethodIS(T, cur, name) ==
    IF name \notin DOMAIN T["LABEL_DEF"]
    THEN [is |-> nil, ok |-> FALSE, cur |-> cur, fault |-> NoFault]
    ELSE LET iss == T["LABEL_DEF"][name]
             i == MapGetInt(cur, name)
         IN  IF i < 0 \/ i >= Len(iss)
             THEN [is |-> nil, ok |-> FALSE, cur |-> cur,
                   fault |-> IndexOutOfRange]
             ELSE [is |-> iss[i + 1], ok |-> TRUE,
                   cur |-> MapSet(cur, name, i + 1), fault |-> NoFault]

\* getClassIS that advances the cursor before it tests ok, creating a
\* cursor entry for a name that has no list
getClassIS_bumpsOnMiss(T, cur, name) ==
    IF name \notin DOMAIN T["LABEL_DEFCLASS"]
    THEN [is |-> nil, ok |-> FALSE,
          cur |-> MapSet(cur, name, MapGetInt(cur, name) + 1),
          fault |-> NoFault]
    ELSE LET iss == T["LABEL_DEFCLASS"][name]
             i == MapGetInt(cur, name)
         IN  IF i < 0 \/ i >= Len(iss)
             THEN [is |-> nil, ok |-> FALSE, cur |-> cur,
                   fault |-> IndexOutOfRange]
             ELSE [is |-> iss[i + 1], ok |-> TRUE,
                   cur |-> MapSet(cur, name, i + 1), fault |-> NoFault]

\* getClassIS with "= 1" written for "+= 1"
getClassIS_setsOne(T, cur, name) ==
    IF name \notin DOMAIN T["LABEL_DEFCLASS"]
    THEN [is |-> nil, ok |-> FALSE, cur |-> cur, fault |-> NoFault]
    ELSE LET iss == T["LABEL_DEFCLASS"][name]
             i == MapGetInt(cur, name)
         IN  IF i < 0 \/ i >= Len(iss)
             THEN [is |-> nil, ok |-> FALSE, cur |-> cur,
                   fault |-> IndexOutOfRange]
             ELSE [is |-> iss[i + 1], ok |-> TRUE,
                   cur |-> MapSet(cur, name, 1), fault |-> NoFault]

\* VM.getClassIS on the label table T and the cursors cur
getClassIS(T, cur, name) ==
    IF name \notin DOMAIN T["LABEL_DEFCLASS"]
    THEN [is |-> nil, ok |-> FALSE, cur |-> cur, fault |-> NoFault]
    ELSE LET iss == T["LABEL_DEFCLASS"][name]
             i == MapGetInt(cur, name)
         IN  IF i < 0 \/ i >= Len(iss)
             THEN [is |-> nil, ok |-> FALSE, cur |-> cur,
                   fault |-> IndexOutOfRange]
             ELSE [is |-> iss[i + 1], ok |-> TRUE,
                   cur |-> MapSet(cur, name, i + 1), fault |-> NoFault]

\* getBlock that returns the most recent registration instead of the first
getBlock_last(T, name) ==
    IF name \notin DOMAIN T["BLOCK"]
    THEN [is |-> nil, ok |-> FALSE, fault |-> NoFault]
    ELSE LET iss == T["BLOCK"][name]
         IN  IF Len(iss) < 1
             THEN [is |-> nil, ok |-> FALSE, fault |-> IndexOutOfRange]
             ELSE [is |-> iss[Len(iss)], ok |-> TRUE, fault |-> NoFault]

\* VM.getBlock on the label table T
getBlock(T, name) ==
    IF name \notin DOMAIN T["BLOCK"]
    THEN [is |-> nil, ok |-> FALSE, fault |-> NoFault]
    ELSE LET iss == T["BLOCK"][name]
         IN  IF Len(iss) < 1
             THEN [is |-> nil, ok |-> FALSE, fault |-> IndexOutOfRange]
             ELSE [is |-> iss[1], ok |-> TRUE, fault |-> NoFault]

\* the bytecode loader allocates a new InstructionSet for every label it
\* reads and hands it to setLabel
SetLabel(name) ==
    /\ fault = NoFault
    /\ Len(regLog) < MaxIS
    /\ LET is == Len(regLog) + 1
           r == setLabel(LabelTable, is, name)
           ok == r.fault = NoFault
       IN  /\ LabelTable' = r.LabelTable
           /\ Label' = IF ok THEN MapSet(Label, is, r.l) ELSE Label
           /\ fault' = r.fault
           /\ lastOp' = Op("setLabel", name, is, nil, ok)
           /\ regLog' = IF ok THEN Append(regLog, <<name, is>>) ELSE regLog
    /\ UNCHANGED <<stackVars, stackHist, frameVars, Constants, MethodISTable,
                   ClassISTable, BlockList, fetchLog>>

Fetched(kind, name, r) ==
    IF r.ok THEN Append(fetchLog, <<kind, name, r.is>>) ELSE fetchLog

\* getMethodIS written against vm.ClassISTable instead of vm.MethodISTable
GetMethodIS_usesClassTable(name) ==
    /\ fault = NoFault
    /\ Len(fetchLog) < MaxFetch
    /\ LET r == getMethodIS(LabelTable, ClassISTable, name)
       IN  /\ ClassISTable' = r.cur
           /\ fault' = r.fault
           /\ lastOp' = Op("getMethodIS", name, 0, r.is, r.ok)
           /\ fetchLog' = Fetched("LABEL_DEF", name, r)
    /\ UNCHANGED <<stackVars, stackHist, frameVars, Constants, LabelTable,
                   MethodISTable, BlockList, Label, regLog>>

GetMethodIS(name) ==
    /\ fault = NoFault
    /\ Len(fetchLog) < MaxFetch
    /\ LET r == getMethodIS(LabelTable, MethodISTable, name)
       IN  /\ MethodISTable' = r.cur
           /\ fault' = r.fault
           /\ lastOp' = Op("getMethodIS", name, 0, r.is, r.ok)
           /\ fetchLog' = Fetched("LABEL_DEF", name, r)
    /\ UNCHANGED <<stackVars, stackHist, frameVars, Constants, LabelTable,
                   ClassISTable, BlockList, Label, regLog>>

GetClassIS(name) ==
    /\ fault = NoFault
    /\ Len(fetchLog) < MaxFetch
    /\ LET r == getClassIS(LabelTable, ClassISTable, name)
       IN  /\ ClassISTable' = r.cur
           /\ fault' = r.fault
           /\ lastOp' = Op("getClassIS", name, 0, r.is, r.ok)
           /\ fetchLog' = Fetched("LABEL_DEFCLASS", name, r)
    /\ UNCHANGED <<stackVars, stackHist, frameVars, Constants, LabelTable,
                   MethodISTable, BlockList, Label, regLog>>

GetBlock(name) ==
    /\ fault = NoFault
    /\ Len(fetchLog) < MaxFetch
    /\ LET r == getBlock(LabelTable, name)
       IN  /\ fault' = r.fault
           /\ lastOp' = Op("getBlock", name, 0, r.is, r.ok)
           /\ fetchLog' = Fetched("BLOCK", name, r)
    /\ UNCHANGED <<stackVars, stackHist, frameVars, Constants, labelVars,
                   regLog>>

NextLabel ==
    \/ \E name \in LabelStrings : SetLabel(name)
    \/ \E name \in Names : GetMethodIS(name)
    \/ \E name \in Names : GetClassIS(name)
    \/ \E name \in Names : GetBlock(name)

SpecLabel == Init /\ [][NextLabel]_vars

(* ------------------------ label registry: claims ----------------------- *)
\* the instruction sets handed to setLabel under the label string label, in
\* call order
RegisteredUnder(label) ==
    LET q == SelectSeq(regLog, LAMBDA e : e[1] = label)
    IN  [i \in 1..Len(q) |-> q[i][2]]

\* the instruction sets the fetches of one kind returned for name, in call
\* order
FetchedFrom(kind, name) ==
    LET q == SelectSeq(fetchLog, LAMBDA e : e[1] = kind /\ e[2] = name)
    IN  [i \in 1..Len(q) |-> q[i][3]]

IsPrefix(a, b) == Len(a) <= Len(b) /\ \A i \in 1..Len(a) : a[i] = b[i]

\* the label string that names (kind, n)
LabelOf(kind, n) ==
    CASE kind = "PROGRAM"        -> n
      [] kind = "LABEL_DEF"      -> MkLabel(DefPrefix, n)
      [] kind = "LABEL_DEFCLASS" -> MkLabel(DefClassPrefix, n)
      [] kind = "BLOCK"          -> MkLabel(BlockPrefix, n)

\* C6: for every name the instruction sets returned by the successful
\* getMethodIS(name) calls are, in call order, the first ones registered
\* under Def:name, likewise getClassIS and DefClass:name, and no
\* instruction set is returned by two of these fetches.
C6_FetchInRegistrationOrder ==
    /\ \A n \in Names :
          /\ IsPrefix(FetchedFrom("LABEL_DEF", n),
                      RegisteredUnder(MkLabel(DefPrefix, n)))
          /\ IsPrefix(FetchedFrom("LABEL_DEFCLASS", n),
                      RegisteredUnder(MkLabel(DefClassPrefix, n)))
    /\ \A i, j \in 1..Len(fetchLog) :
          (/\ i # j
           /\ fetchLog[i][1] # "BLOCK"
           /\ fetchLog[j][1] # "BLOCK") => fetchLog[i][3] # fetchLog[j][3]

C6_Witness ==
    /\ lastOp.op = "getMethodIS"
    /\ lastOp.ok
    /\ Len(FetchedFrom("LABEL_DEF", lastOp.name)) >= 2
    /\ \E n \in Names : Len(FetchedFrom("LABEL_DEFCLASS", n)) >= 1

\* C7: the list stored under each (kind, name) is exactly the sequence of
\* instruction sets registered under that label, in registration order.
C7_RegistryIsAppendOnly ==
    \A k \in LabelTypes :
        \A n \in DOMAIN LabelTable[k] \cup Names \cup {ProgramStart} :
            MapGetList(LabelTable[k], n) = RegisteredUnder(LabelOf(k, n))

C7_Witness ==
    \E k \in LabelTypes, n \in Names :
        /\ n \in DOMAIN LabelTable[k]
        /\ Len(LabelTable[k][n]) >= 2
        /\ Len(regLog) >= 3
        /\ regLog[2][1] # LabelOf(k, n)

\* C8: getBlock(id) returns the first instruction set registered under
\* Block:id whenever there is one, however often it is called and however
\* many were registered after the first, and it changes no cursor.
C8_GetBlockIsFirstAndRepeatable ==
    [][lastOp'.op = "getBlock" =>
          /\ UNCHANGED <<MethodISTable, ClassISTable, BlockList, LabelTable>>
          /\ LET reg == RegisteredUnder(MkLabel(BlockPrefix, lastOp'.name))
             IN  reg # <<>> => (lastOp'.ok /\ lastOp'.ret = reg[1])]_vars

C8_Witness ==
    /\ lastOp.op = "getBlock"
    /\ lastOp.ok
    /\ Len(FetchedFrom("BLOCK", lastOp.name)) >= 2
    /\ Len(RegisteredUnder(MkLabel(BlockPrefix, lastOp.name))) >= 2

\* the label kind a fetch operation reads
KindOfFetch(op) ==
    CASE op = "getMethodIS" -> "LABEL_DEF"
      [] op = "getClassIS"  -> "LABEL_DEFCLASS"
      [] op = "getBlock"    -> "BLOCK"

FetchOps == {"getMethodIS", "getClassIS", "getBlock"}

\* C11: getMethodIS, getClassIS and getBlock called with a name that has no
\* entry under their label kind return (nil, false) without a fault and
\* leave the label table and every cursor table unchanged, so no cursor
\* entry is created for the name.
C11_MissHasNoSideEffects ==
    [][(/\ lastOp'.op \in FetchOps
        /\ lastOp'.name \notin DOMAIN LabelTable[KindOfFetch(lastOp'.op)])
          => /\ lastOp'.ret = nil
             /\ ~lastOp'.ok
             /\ fault' = NoFault
             /\ UNCHANGED <<LabelTable, MethodISTable, ClassISTable,
                            BlockList>>]_vars

C11_Witness ==
    /\ lastOp.op = "getClassIS"
    /\ ~lastOp.ok
    /\ fault = NoFault
    /\ lastOp.name \notin DOMAIN LabelTable["LABEL_DEFCLASS"]
    /\ lastOp.name \in DOMAIN LabelTable["LABEL_DEF"]
    /\ lastOp.name \notin DOMAIN ClassISTable
    /\ DOMAIN LabelTable["LABEL_DEFCLASS"] # {}

\* C12: no cursor ever decreases, a successful getMethodIS(name) or
\* getClassIS(name) raises the entry of name in its own table by exactly
\* one and changes no other entry of it, and setLabel changes no cursor.
C12_CursorsAdvanceByOne ==
    [][/\ \A n \in DOMAIN MethodISTable :
              n \in DOMAIN MethodISTable'
              /\ MethodISTable'[n] >= MethodISTable[n]
       /\ \A n \in DOMAIN ClassISTable :
              n \in DOMAIN ClassISTable' /\ ClassISTable'[n] >= ClassISTable[n]
       /\ (lastOp'.op = "getMethodIS" /\ lastOp'.ok) =>
              MethodISTable' =
                  MapSet(MethodISTable, lastOp'.name,
                         MapGetInt(MethodISTable, lastOp'.name) + 1)
       /\ (lastOp'.op = "getClassIS" /\ lastOp'.ok) =>
              ClassISTable' =
                  MapSet(ClassISTable, lastOp'.name,
                         MapGetInt(ClassISTable, lastOp'.name) + 1)
       /\ lastOp'.op = "setLabel" =>
              UNCHANGED <<MethodISTable, ClassISTable, BlockList>>]_vars

C12_Witness ==
    /\ lastOp.op = "getClassIS"
    /\ lastOp.ok
    /\ MapGetInt(ClassISTable, lastOp.name) >= 2
    /\ Len(regLog) >= 3

\* the entries of a cursor table other than the one of name are unchanged
OtherEntriesSame(old, new, name) ==
    /\ DOMAIN new \ {name} = DOMAIN old \ {name}
    /\ \A n \in DOMAIN old \ {name} : new[n] = old[n]

\* C13: the three fetches never change the label table or the constants
\* map; getMethodIS(name) leaves ClassISTable, BlockList and the method
\* cursors of other names unchanged, and getClassIS(name) leaves
\* MethodISTable, BlockList and the class cursors of other names unchanged.
C13_FetchesAreIndependent ==
    [][lastOp'.op \in FetchOps =>
          /\ UNCHANGED <<LabelTable, Constants, BlockList>>
          /\ lastOp'.op = "getMethodIS" =>
                 /\ ClassISTable' = ClassISTable
                 /\ OtherEntriesSame(MethodISTable, MethodISTable',
                                     lastOp'.name)
          /\ lastOp'.op = "getClassIS" =>
                 /\ MethodISTable' = MethodISTable
                 /\ OtherEntriesSame(ClassISTable, ClassISTable',
                                     lastOp'.name)
          /\ lastOp'.op = "getBlock" =>
                 UNCHANGED <<MethodISTable, ClassISTable>>]_vars

C13_Witness ==
    /\ lastOp.op = "getMethodIS"
    /\ lastOp.ok
    /\ lastOp.name \in DOMAIN LabelTable["LABEL_DEFCLASS"]
    /\ MapGetInt(ClassISTable, lastOp.name) = 0
    /\ \E n \in Names : n # lastOp.name /\ MapGetInt(ClassISTable, n) >= 1

\* the (kind, name) keys a well-formed label string can name
LabelKeys ==
    {<<"PROGRAM", ProgramStart>>}
    \cup (({"LABEL_DEF", "LABEL_DEFCLASS", "BLOCK"}) \X Names)

\* C14: a setLabel call that returns files its instruction set under the
\* one key its label names - ProgramStart under (Program, ProgramStart),
\* Def:n, DefClass:n, Block:n under (Def, n), (DefClass, n), (Block, n) -
\* by appending it there, stores the full label string and that kind in the
\* instruction set's Label, and leaves every other list unchanged.
C14_SetLabelFilesUnderOneKey ==
    [][(lastOp'.op = "setLabel" /\ lastOp'.ok) =>
          \A key \in LabelKeys :
              lastOp'.name = LabelOf(key[1], key[2]) =>
                  /\ key[2] \in DOMAIN LabelTable'[key[1]]
                  /\ LabelTable'[key[1]][key[2]] =
                         Append(MapGetList(LabelTable[key[1]], key[2]),
                                lastOp'.arg)
                  /\ Label'[lastOp'.arg] =
                         [Name |-> lastOp'.name, Type |-> key[1]]
                  /\ \A k \in LabelTypes :
                         /\ DOMAIN LabelTable'[k] \ {key[2]} =
                                DOMAIN LabelTable[k] \ {key[2]}
                         /\ \A n \in DOMAIN LabelTable[k] :
                                <<k, n>> # key =>
                                    /\ n \in DOMAIN LabelTable'[k]
                                    /\ LabelTable'[k][n] = LabelTable[k][n]
                         /\ (k # key[1] /\ key[2] \notin DOMAIN LabelTable[k])
                                => key[2] \notin DOMAIN LabelTable'[k]]_vars

C14_Witness ==
    /\ lastOp.op = "setLabel"
    /\ lastOp.ok
    /\ lastOp.name = MkLabel(DefClassPrefix, <<"g">>)
    /\ <<"g">> \in DOMAIN LabelTable["LABEL_DEF"]
    /\ ProgramStart \in DOMAIN LabelTable["PROGRAM"]

\* C18: no cursor exceeds the number of instruction sets registered under
\* its label, and a getMethodIS or getClassIS attempted with the cursor
\* equal to that number returns no instruction set and leaves the cursor
\* where it is.
C18_CursorWithinList ==
    [][/\ \A n \in Names :
              /\ MapGetInt(MethodISTable', n)
                     <= Len(RegisteredUnder(MkLabel(DefPrefix, n))')
              /\ MapGetInt(ClassISTable', n)
                     <= Len(RegisteredUnder(MkLabel(DefClassPrefix, n))')
       /\ (/\ lastOp'.op = "getMethodIS"
           /\ RegisteredUnder(MkLabel(DefPrefix, lastOp'.name)) # <<>>
           /\ MapGetInt(MethodISTable, lastOp'.name)
                  = Len(RegisteredUnder(MkLabel(DefPrefix, lastOp'.name))))
             => (~lastOp'.ok /\ lastOp'.ret = nil
                 /\ MethodISTable' = MethodISTable)
       /\ (/\ lastOp'.op = "getClassIS"
           /\ RegisteredUnder(MkLabel(DefClassPrefix, lastOp'.name)) # <<>>
           /\ MapGetInt(ClassISTable, lastOp'.name)
                  = Len(RegisteredUnder(MkLabel(DefClassPrefix,
                                                lastOp'.name))))
             => (~lastOp'.ok /\ lastOp'.ret = nil
                 /\ ClassISTable' = ClassISTable)]_vars

C18_Witness ==
    /\ lastOp.op = "getMethodIS"
    /\ ~lastOp.ok
    /\ fault = IndexOutOfRange
    /\ MapGetInt(MethodISTable, lastOp.name) >= 2
    /\ MapGetInt(MethodISTable, lastOp.name)
           = Len(LabelTable["LABEL_DEF"][lastOp.name])

(* --------------------------- construction: claim ----------------------- *)
\* C9: a VM made by New() has SP = 0, CFP = 0, an empty operand stack and
\* call-frame stack, the eight built-in classes bound under their names in
\* the constants map, an empty map for each of the four label kinds, and
\* empty method, class and block cursors.
C9_NewVMState ==
    lastOp.op = "New" =>
        /\ SP = 0
        /\ CFP = 0
        /\ Data = <<>>
        /\ CallFrames = <<>>
        /\ DOMAIN Constants = {"Integer", "String", "Boolean", "Null",
                               "Array", "Hash", "Class", "Object"}
        /\ Constants["Integer"].Target = "IntegerClass"
        /\ Constants["String"].Target = "StringClass"
        /\ Constants["Boolean"].Target = "BooleanClass"
        /\ Constants["Null"].Target = "NullClass"
        /\ Constants["Array"].Target = "ArrayClass"
        /\ Constants["Hash"].Target = "HashClass"
        /\ Constants["Class"].Target = "ClassClass"
        /\ Constants["Object"].Target = "ObjectClass"
        /\ DOMAIN LabelTable = {"LABEL_DEF", "LABEL_DEFCLASS", "BLOCK",
                                "PROGRAM"}
        /\ \A k \in DOMAIN LabelTable : DOMAIN LabelTable[k] = {}
        /\ DOMAIN MethodISTable = {}
        /\ DOMAIN ClassISTable = {}
        /\ DOMAIN BlockList = {}

C9_Witness == lastOp.op = "New" /\ fault = NoFault /\ pushes = 0

\* C10: a send that completes (with its matching leave) leaves SP at its
\* value before the send minus (argc + 1) plus 1.
C10_SendIsStackBalanced ==
    [][(lastOp'.op = "send" /\ lastOp'.ok)
          => SP' = SP - (lastOp'.arg + 1) + 1]_vars

C10_Witness ==
    /\ lastOp.op = "send"
    /\ lastOp.ok
    /\ lastOp.arg >= 2
    /\ SP >= 1

====
